---- MODULE Spec2Model ----
(***************************************************************************)
(* Model of package sshpool (src/pool.go, lines 1-146: the revision with   *)
(* Pool.Timeout).  Several callers run Pool.Open concurrently; the pool    *)
(* table, its mutex, the connection entries and the transport of each      *)
(* entry are the shared state.                                             *)
(***************************************************************************)
EXTENDS Naturals, FiniteSets, Sequences

\* ---------------------------------------------------------------- bounds
NProc == 2          \* concurrent callers of Pool.Open
MaxEntries == 2     \* conn entries ever allocated by getConn
MaxTime == 4        \* the clock runs 1..MaxTime
MaxKeyLen == 3      \* total length of net, addr and user given to AddrUserKey
MaxOpens == 3       \* calls of Pool.Open ever started

Procs == 1..NProc
Keys == {"k1", "k2"}            \* values of Pool.key(net, addr, config)
Entries == 1..MaxEntries
Timeouts == {0, 2}              \* values of Pool.Timeout the pool is built with
NoConn == 0                     \* "no entry" / nil pointer
ZeroTime == 0                   \* time.Time{} (IsZero)

\* Strings are sequences of characters: the space, the double quote and
\* the backslash.
Chars == {" ", "\"", "\\"}
Strs == UNION {[1..n -> Chars] : n \in 0..MaxKeyLen}
\* the arguments of AddrUserKey: net, addr and config.User
Triples == {t \in [net : Strs, addr : Strs, user : Strs] :
               Len(t.net) + Len(t.addr) + Len(t.user) <= MaxKeyLen}
NoKeyIn == [net |-> <<>>, addr |-> <<>>, user |-> <<>>]
NoKeyOut == <<>>

VARIABLES
    Timeout,          \* Pool.Timeout
    now,              \* time.Now()
    tab,              \* Pool.tab : key -> entry or NoConn
    mu,               \* Pool.mu  : 0 or the caller holding it
    nconn,            \* number of conn values allocated so far
    conns,            \* entry -> [key, ok, err, netC, c]   (type conn), with
                      \* the number of writes of its fields and of close(ok)
                      \* and whether Open has returned its dial error
    netDeadline,      \* entry -> deadline set on conn.netC (ZeroTime: none)
    closes,           \* entry -> number of c.c.Close() calls by Open
    netCloses,        \* entry -> number of netC.Close() calls by Pool.dial
    pc,               \* caller -> position in Open
    k,                \* caller -> key of the running call
    c,                \* caller -> entry returned by getConn (local c)
    deadline,         \* caller -> local deadline
    sessionDeadline,  \* caller -> local sessionDeadline
    err,              \* caller -> err returned by c.newSession
    rd,               \* caller -> what the call read from its entry
    res,              \* caller -> what the last finished Open returned
    hist,             \* per key: Dialer invocations, failures (history)
    sessions,         \* entries on which a returned session runs (history)
    opens,            \* number of Open calls started so far (history)
    call,             \* caller -> facts about the running call (history):
                      \* newer is the other entry its last removeConn found,
                      \* early that getConn found an entry not yet ready
    kin,              \* two argument triples (net, addr, user) of AddrUserKey
    kout              \* the two strings AddrUserKey returned for them

keyvars == <<kin, kout>>
vars == <<keyvars, Timeout, now, tab, mu, nconn, conns, netDeadline, closes, netCloses,
          pc, k, c, deadline, sessionDeadline, err, rd, res, hist, sessions,
          opens, call>>

shared == <<tab, mu, nconn, conns, netDeadline, closes, netCloses>>
locals == <<k, c, deadline, sessionDeadline, err, rd>>

\* ------------------------------------------------------------ data
NewConn(key) == [key |-> key, ok |-> FALSE, err |-> "nil", netC |-> NoConn,
                 c |-> NoConn, writes |-> 0, fires |-> 0, returned |-> FALSE]
NoRead == [err |-> "unread", c |-> NoConn]
NoRes == [kind |-> "none", ent |-> NoConn, err |-> "nil", key |-> "k1",
          dials |-> 0, fails |-> 0, first |-> NoConn, firstPooled |-> FALSE]
NoHist == [dials |-> 0, dialFails |-> 0, sessFails |-> 0]
NoCall == [dials |-> 0, fails |-> 0, first |-> NoConn, firstPooled |-> FALSE,
           failedAtStart |-> {}, errReturnedAtStart |-> {}, newer |-> NoConn,
           early |-> FALSE]

Allocated == 1..nconn
\* entries whose dial is done, failed, and whose ready signal has fired
FailedReady == {e \in Allocated : conns[e].ok /\ conns[e].err # "nil"}
\* entries that are allocated and no longer in the table
InTable == {tab[key] : key \in Keys} \ {NoConn}

\* entries whose dial error some Open call has already returned
ErrReturned == {e \in Allocated : conns[e].returned}

\* an eviction that deletes whatever entry the key maps to
removeConnAlways(t, key, c1) == [t EXCEPT ![key] = NoConn]

\* an eviction that leaves the table as it is
removeConnNoop(t, key, c1) == t

\* removeConn (lines 107-114): compare-and-delete on the table
removeConn(t, key, c1) ==
    IF t[key] # NoConn /\ t[key] = c1 THEN [t EXCEPT ![key] = NoConn] ELSE t

\* a lookup that never finds the key
tabHasNever(t, key) == FALSE

\* lines 92-93: c, ok := p.tab[k]
tabHas(t, key) == t[key] # NoConn

\* a new entry published under every key
tabInsertAllKeys(t, key, e) == [x \in DOMAIN t |-> e]

\* the new entry is not published in the table before the dial
tabInsertLost(t, key, e) == t

\* line 99: p.tab[k] = c
tabInsert(t, key, e) == [t EXCEPT ![key] = e]

\* the evicted connection is not closed
closeConnSkipped(cl, e) == cl

\* line 63: c.c.Close(), counted per connection
closeConn(cl, e) == [cl EXCEPT ![e] = @ + 1]

\* the mutex is kept across the blocking call that follows
unlockForgotten(m, p) == m

\* lines 94, 100, 109: p.mu.Unlock()
unlock(m, p) == 0

\* the deadline check without its Timeout > 0 guard
pastDeadlineNoGuard(T, t, dl) == t > dl

\* a ready signal that no waiter ever sees
okClosedNever(cn) == FALSE

\* a wait that returns before the ready signal has fired
okClosedAlways(cn) == TRUE

\* line 95: <-c.ok returns once the channel is closed
okClosed(cn) == cn.ok

\* line 64: p.Timeout > 0 && time.Now().After(deadline)
pastDeadline(T, t, dl) == T > 0 /\ t > dl

\* the transport's deadline has expired: pending I/O fails with a timeout
expired(e) == netDeadline[e] # ZeroTime /\ now > netDeadline[e]

\* strconv.Quote without its escaping of quotes and backslashes
QuoteNoEscape(s) == <<"\"">> \o s \o <<"\"">>

\* strconv.Quote's escaping of the characters of a string: a double quote
\* and a backslash get a backslash in front, printable ASCII stays
RECURSIVE Escape(_)
Escape(s) ==
    IF s = <<>> THEN <<>>
    ELSE (IF Head(s) \in {"\"", "\\"} THEN <<"\\", Head(s)>> ELSE <<Head(s)>>)
             \o Escape(Tail(s))

\* strconv.Quote(s): the escaped string between double quotes
Quote(s) == <<"\"">> \o Escape(s) \o <<"\"">>

\* AddrUserKey (lines 144-146)
AddrUserKey(net, addr, user) ==
    Quote(net) \o <<" ">> \o Quote(addr) \o <<" ">> \o Quote(user)

\* ------------------------------------------------------------ Init
\* a pool after construction, no call made yet
PoolInit ==
    /\ Timeout \in Timeouts
    /\ now = 1
    /\ tab = [key \in Keys |-> NoConn]
    /\ mu = 0
    /\ nconn = 0
    /\ conns = [e \in Entries |-> NewConn("k1")]
    /\ netDeadline = [e \in Entries |-> ZeroTime]
    /\ closes = [e \in Entries |-> 0]
    /\ netCloses = [e \in Entries |-> 0]
    /\ pc = [p \in Procs |-> "idle"]
    /\ k = [p \in Procs |-> "k1"]
    /\ c = [p \in Procs |-> NoConn]
    /\ deadline = [p \in Procs |-> ZeroTime]
    /\ sessionDeadline = [p \in Procs |-> ZeroTime]
    /\ err = [p \in Procs |-> "nil"]
    /\ rd = [p \in Procs |-> NoRead]
    /\ res = [p \in Procs |-> NoRes]
    /\ hist = [key \in Keys |-> NoHist]
    /\ sessions = {}
    /\ opens = 0
    /\ call = [p \in Procs |-> NoCall]

Init ==
    /\ PoolInit
    /\ kin = <<NoKeyIn, NoKeyIn>>
    /\ kout = NoKeyOut

\* ------------------------------------------------------------ Open
\* lines 39-50: Open computes its deadlines and the key, enters the loop.
\* (Bounds of the model: at most MaxOpens calls are started, and a call
\* with a timeout starts early enough for the clock to pass its deadline.)
OpenStart(p, key) ==
    /\ pc[p] = "idle"
    /\ opens < MaxOpens
    /\ Timeout > 0 => now + Timeout < MaxTime
    /\ opens' = opens + 1
    /\ pc' = [pc EXCEPT ![p] = "gc_lock"]
    /\ k' = [k EXCEPT ![p] = key]
    /\ deadline' = [deadline EXCEPT ![p] =
                       IF Timeout > 0 THEN now + Timeout ELSE ZeroTime]
    /\ sessionDeadline' = [sessionDeadline EXCEPT ![p] =
                       IF Timeout > 0 THEN now + (Timeout \div 2) ELSE ZeroTime]
    /\ c' = [c EXCEPT ![p] = NoConn]
    /\ err' = [err EXCEPT ![p] = "nil"]
    /\ rd' = [rd EXCEPT ![p] = NoRead]
    /\ call' = [call EXCEPT ![p] = [NoCall EXCEPT
                   !.failedAtStart = FailedReady,
                   !.errReturnedAtStart = ErrReturned]]
    /\ UNCHANGED <<keyvars, Timeout, now, shared, res, hist, sessions>>

\* line 88: p.mu.Lock()
GetConnLock(p) ==
    /\ pc[p] = "gc_lock"
    /\ mu = 0
    /\ mu' = p
    /\ pc' = [pc EXCEPT ![p] = "gc_cs"]
    /\ UNCHANGED <<keyvars, Timeout, now, tab, nconn, conns, netDeadline, closes,
                   netCloses, locals, res, hist, sessions, opens, call>>

\* lines 92-95: the key is in the table: unlock, then wait on c.ok
GetConnHit(p) ==
    /\ pc[p] = "gc_cs"
    /\ tabHas(tab, k[p])
    /\ c' = [c EXCEPT ![p] = tab[k[p]]]
    /\ mu' = unlock(mu, p)
    /\ pc' = [pc EXCEPT ![p] = "gc_wait"]
    /\ call' = [call EXCEPT ![p] =
                  [(IF @.first = NoConn
                    THEN [@ EXCEPT !.first = tab[k[p]], !.firstPooled = TRUE]
                    ELSE @) EXCEPT !.early = ~conns[tab[k[p]]].ok]]
    /\ UNCHANGED <<keyvars, Timeout, now, tab, nconn, conns, netDeadline, closes,
                   netCloses, k, deadline, sessionDeadline, err, rd, res,
                   hist, sessions, opens>>

\* lines 98-101: no entry: insert a fresh one, unlock, call p.dial; the
\* step ends inside dial(network, addr) (line 122)
GetConnMiss(p) ==
    /\ pc[p] = "gc_cs"
    /\ ~tabHas(tab, k[p])
    /\ nconn < MaxEntries
    /\ nconn' = nconn + 1
    /\ conns' = [conns EXCEPT ![nconn + 1] = NewConn(k[p])]
    /\ tab' = tabInsert(tab, k[p], nconn + 1)
    /\ c' = [c EXCEPT ![p] = nconn + 1]
    /\ mu' = unlock(mu, p)
    /\ pc' = [pc EXCEPT ![p] = "dial"]
    /\ hist' = [hist EXCEPT ![k[p]].dials = @ + 1]
    /\ call' = [call EXCEPT ![p] =
                  [@ EXCEPT !.dials = @ + 1,
                            !.first = IF @ = NoConn THEN nconn + 1 ELSE @]]
    /\ UNCHANGED <<keyvars, Timeout, now, netDeadline, closes, netCloses, k, deadline,
                   sessionDeadline, err, rd, res, sessions, opens>>

\* lines 122-125 and 101: dial fails; (nil, nil, err) is stored in the entry
DialNetFail(p) ==
    /\ pc[p] = "dial"
    /\ conns' = [conns EXCEPT ![c[p]] =
                    [@ EXCEPT !.netC = NoConn, !.c = NoConn, !.err = "neterr",
                              !.writes = @ + 1]]
    /\ hist' = [hist EXCEPT ![k[p]].dialFails = @ + 1]
    /\ pc' = [pc EXCEPT ![p] = "gc_close"]
    /\ UNCHANGED <<keyvars, Timeout, now, tab, mu, nconn, netDeadline, closes,
                   netCloses, locals, res, sessions, opens, call>>

\* lines 122-126: dial succeeds; ssh.Client(netC, config) starts
DialNetOk(p) ==
    /\ pc[p] = "dial"
    /\ pc' = [pc EXCEPT ![p] = "handshake"]
    /\ UNCHANGED <<keyvars, Timeout, now, shared, locals, res, hist, sessions, opens, call>>

\* lines 126-131 and 101: the handshake succeeds; the entry gets its fields
HandshakeOk(p) ==
    /\ pc[p] = "handshake"
    /\ conns' = [conns EXCEPT ![c[p]] =
                    [@ EXCEPT !.netC = c[p], !.c = c[p], !.err = "nil",
                              !.writes = @ + 1]]
    /\ pc' = [pc EXCEPT ![p] = "gc_close"]
    /\ UNCHANGED <<keyvars, Timeout, now, tab, mu, nconn, netDeadline, closes,
                   netCloses, locals, res, hist, sessions, opens, call>>

\* lines 126-128: the handshake fails; netC.Close()
HandshakeFail(p) ==
    /\ pc[p] = "handshake"
    /\ netCloses' = [netCloses EXCEPT ![c[p]] = @ + 1]
    /\ pc' = [pc EXCEPT ![p] = "hs_fail"]
    /\ UNCHANGED <<keyvars, Timeout, now, tab, mu, nconn, conns, netDeadline, closes,
                   locals, res, hist, sessions, opens, call>>

\* lines 129 and 101: p.dial returns (nil, nil, err); it is stored in the entry
HandshakeFailReturn(p) ==
    /\ pc[p] = "hs_fail"
    /\ conns' = [conns EXCEPT ![c[p]] =
                    [@ EXCEPT !.netC = NoConn, !.c = NoConn, !.err = "hserr",
                              !.writes = @ + 1]]
    /\ hist' = [hist EXCEPT ![k[p]].dialFails = @ + 1]
    /\ pc' = [pc EXCEPT ![p] = "gc_close"]
    /\ UNCHANGED <<keyvars, Timeout, now, tab, mu, nconn, netDeadline, closes,
                   netCloses, locals, res, sessions, opens, call>>

\* lines 102-103: close(c.ok); return c
GetConnCloseOk(p) ==
    /\ pc[p] = "gc_close"
    /\ conns' = [conns EXCEPT ![c[p]] =
                    [@ EXCEPT !.ok = TRUE, !.fires = @ + 1]]
    /\ pc' = [pc EXCEPT ![p] = "check"]
    /\ UNCHANGED <<keyvars, Timeout, now, tab, mu, nconn, netDeadline, closes,
                   netCloses, locals, res, hist, sessions, opens, call>>

\* lines 95-96: <-c.ok; return c
GetConnWait(p) ==
    /\ pc[p] = "gc_wait"
    /\ okClosed(conns[c[p]])
    /\ pc' = [pc EXCEPT ![p] = "check"]
    /\ UNCHANGED <<keyvars, Timeout, now, shared, locals, res, hist, sessions, opens, call>>

\* line 53: if c.err != nil
OpenCheck(p) ==
    /\ pc[p] = "check"
    /\ rd' = [rd EXCEPT ![p].err = conns[c[p]].err]
    /\ pc' = [pc EXCEPT ![p] =
                 IF conns[c[p]].err # "nil" THEN "rme_lock" ELSE "ns"]
    /\ call' = [call EXCEPT ![p].early = FALSE]
    /\ UNCHANGED <<keyvars, Timeout, now, shared, k, c, deadline, sessionDeadline, err,
                   res, hist, sessions, opens>>

\* ------------------------------------------------------------ newSession
\* what Open hands back to its caller
Returned(p, kind, e, er) ==
    [kind |-> kind, ent |-> e, err |-> er, key |-> k[p],
     dials |-> call[p].dials, fails |-> call[p].fails,
     first |-> call[p].first, firstPooled |-> call[p].firstPooled]

\* the locals of a caller that is not inside Open
Idle(p) ==
    /\ pc' = [pc EXCEPT ![p] = "idle"]
    /\ c' = [c EXCEPT ![p] = NoConn]
    /\ deadline' = [deadline EXCEPT ![p] = ZeroTime]
    /\ sessionDeadline' = [sessionDeadline EXCEPT ![p] = ZeroTime]
    /\ err' = [err EXCEPT ![p] = "nil"]
    /\ rd' = [rd EXCEPT ![p] = NoRead]
    /\ call' = [call EXCEPT ![p] = NoCall]
    /\ UNCHANGED k

\* lines 78-82 with a deadline: c.netC.SetDeadline(deadline), then
\* c.c.NewSession() is called and is in progress
NewSessionSetDeadline(p) ==
    /\ pc[p] = "ns"
    /\ sessionDeadline[p] # ZeroTime
    /\ netDeadline' = [netDeadline EXCEPT ![c[p]] = sessionDeadline[p]]
    /\ rd' = [rd EXCEPT ![p].c = conns[c[p]].c]
    /\ pc' = [pc EXCEPT ![p] = "ns_wait"]
    /\ UNCHANGED <<keyvars, Timeout, now, tab, mu, nconn, conns, closes, netCloses,
                   k, c, deadline, sessionDeadline, err, res, hist, sessions, opens,
                   call>>

\* lines 78 and 82 with the zero deadline: c.c.NewSession() is called
NewSessionNoDeadline(p) ==
    /\ pc[p] = "ns"
    /\ sessionDeadline[p] = ZeroTime
    /\ rd' = [rd EXCEPT ![p].c = conns[c[p]].c]
    /\ pc' = [pc EXCEPT ![p] = "ns_wait"]
    /\ UNCHANGED <<keyvars, Timeout, now, shared, k, c, deadline, sessionDeadline, err,
                   res, hist, sessions, opens, call>>

\* c.c.NewSession() returns er ("nil": a session); with a deadline the
\* deferred SetDeadline(time.Time{}) of line 80 is still to run
NewSessionReturns(p, er) ==
    /\ err' = [err EXCEPT ![p] = er]
    /\ pc' = [pc EXCEPT ![p] =
                 IF sessionDeadline[p] # ZeroTime THEN "ns_defer" ELSE "ns_ret"]
    /\ hist' = [hist EXCEPT ![k[p]].sessFails =
                   IF er = "nil" THEN @ ELSE @ + 1]
    /\ call' = [call EXCEPT ![p].fails = IF er = "nil" THEN @ ELSE @ + 1]
    /\ UNCHANGED <<keyvars, Timeout, now, shared, k, c, deadline, sessionDeadline, rd,
                   res, sessions, opens>>

\* line 82: the server accepts the channel: possible while the connection
\* is open and the deadline set on its transport has not expired
NewSessionOk(p) ==
    /\ pc[p] = "ns_wait"
    /\ closes[c[p]] = 0
    /\ ~expired(c[p])
    /\ NewSessionReturns(p, "nil")

\* line 82: the server rejects the channel, or the transport fails
NewSessionReject(p) ==
    /\ pc[p] = "ns_wait"
    /\ NewSessionReturns(p, "rejected")

\* line 82: the deadline set on the transport has passed: i/o timeout
NewSessionTimeout(p) ==
    /\ pc[p] = "ns_wait"
    /\ expired(c[p])
    /\ NewSessionReturns(p, "timeout")

\* line 82: the connection was closed by a c.c.Close() of line 63
NewSessionClosed(p) ==
    /\ pc[p] = "ns_wait"
    /\ closes[c[p]] > 0
    /\ NewSessionReturns(p, "closed")

\* line 80: the deferred c.netC.SetDeadline(time.Time{})
NewSessionDefer(p) ==
    /\ pc[p] = "ns_defer"
    /\ netDeadline' = [netDeadline EXCEPT ![c[p]] = ZeroTime]
    /\ pc' = [pc EXCEPT ![p] = "ns_ret"]
    /\ UNCHANGED <<keyvars, Timeout, now, tab, mu, nconn, conns, closes, netCloses,
                   locals, res, hist, sessions, opens, call>>

\* lines 58-60: err == nil: return s, nil
OpenReturnSession(p) ==
    /\ pc[p] = "ns_ret"
    /\ err[p] = "nil"
    /\ res' = [res EXCEPT ![p] = Returned(p, "session", c[p], "nil")]
    /\ sessions' = sessions \cup {c[p]}
    /\ Idle(p)
    /\ UNCHANGED <<keyvars, Timeout, now, shared, hist, opens>>

\* line 61: sessionDeadline = deadline, then removeConn is entered
OpenSessionFailed(p) ==
    /\ pc[p] = "ns_ret"
    /\ err[p] # "nil"
    /\ sessionDeadline' = [sessionDeadline EXCEPT ![p] = deadline[p]]
    /\ pc' = [pc EXCEPT ![p] = "rms_lock"]
    /\ UNCHANGED <<keyvars, Timeout, now, shared, k, c, deadline, err, rd, res, hist,
                   sessions, opens, call>>

\* ------------------------------------------------------------ removeConn
\* line 108: p.mu.Lock(), called from line 54 (rme) or line 62 (rms)
RemoveConnLock(p) ==
    /\ pc[p] \in {"rme_lock", "rms_lock"}
    /\ mu = 0
    /\ mu' = p
    /\ pc' = [pc EXCEPT ![p] = IF pc[p] = "rme_lock" THEN "rme_cs" ELSE "rms_cs"]
    /\ UNCHANGED <<keyvars, Timeout, now, tab, nconn, conns, netDeadline, closes,
                   netCloses, locals, res, hist, sessions, opens, call>>

\* lines 54-55: removeConn(k, c) deletes and unlocks; return nil, c.err
OpenReturnDialErr(p) ==
    /\ pc[p] = "rme_cs"
    /\ tab' = removeConn(tab, k[p], c[p])
    /\ mu' = unlock(mu, p)
    /\ res' = [res EXCEPT ![p] = Returned(p, "dialerr", c[p], conns[c[p]].err)]
    /\ conns' = [conns EXCEPT ![c[p]].returned = TRUE]
    /\ Idle(p)
    /\ UNCHANGED <<keyvars, Timeout, now, nconn, netDeadline, closes, netCloses,
                   hist, sessions, opens>>

\* line 62: removeConn(k, c) deletes and unlocks
RemoveConnSession(p) ==
    /\ pc[p] = "rms_cs"
    /\ tab' = removeConn(tab, k[p], c[p])
    /\ mu' = unlock(mu, p)
    /\ pc' = [pc EXCEPT ![p] = "close"]
    /\ call' = [call EXCEPT ![p].newer =
                    IF tab[k[p]] # c[p] THEN tab[k[p]] ELSE NoConn]
    /\ UNCHANGED <<keyvars, Timeout, now, nconn, conns, netDeadline, closes, netCloses,
                   locals, res, hist, sessions, opens>>

\* line 63: c.c.Close() returns
OpenClose(p) ==
    /\ pc[p] = "close"
    /\ closes' = closeConn(closes, c[p])
    /\ pc' = [pc EXCEPT ![p] = "after_close"]
    /\ UNCHANGED <<keyvars, Timeout, now, tab, mu, nconn, conns, netDeadline,
                   netCloses, locals, res, hist, sessions, opens, call>>

\* lines 64 and 51: the clock is read, the deadline has not passed: loop
OpenLoopAgain(p) ==
    /\ pc[p] = "after_close"
    /\ ~pastDeadline(Timeout, now, deadline[p])
    /\ pc' = [pc EXCEPT ![p] = "gc_lock"]
    /\ c' = [c EXCEPT ![p] = NoConn]
    /\ rd' = [rd EXCEPT ![p] = NoRead]
    /\ call' = [call EXCEPT ![p].newer = NoConn]
    /\ UNCHANGED <<keyvars, Timeout, now, shared, k, deadline, sessionDeadline, err,
                   res, hist, sessions, opens>>

\* lines 64-65: the clock is read, the deadline has passed: return nil, err
OpenReturnSessionErr(p) ==
    /\ pc[p] = "after_close"
    /\ pastDeadline(Timeout, now, deadline[p])
    /\ res' = [res EXCEPT ![p] = Returned(p, "sesserr", c[p], err[p])]
    /\ Idle(p)
    /\ UNCHANGED <<keyvars, Timeout, now, shared, hist, sessions, opens>>

\* time passes (the clock is read only when Timeout > 0: lines 41-49, 64)
Tick ==
    /\ Timeout > 0
    /\ now < MaxTime
    /\ now' = now + 1
    /\ UNCHANGED <<keyvars, Timeout, shared, pc, locals, res, hist, sessions, opens, call>>

\* ------------------------------------------------------------ Next
Step(p) ==
    \/ \E key \in Keys : OpenStart(p, key)
    \/ GetConnLock(p)
    \/ GetConnHit(p)
    \/ GetConnMiss(p)
    \/ DialNetFail(p)
    \/ DialNetOk(p)
    \/ HandshakeOk(p)
    \/ HandshakeFail(p)
    \/ HandshakeFailReturn(p)
    \/ GetConnCloseOk(p)
    \/ GetConnWait(p)
    \/ OpenCheck(p)
    \/ NewSessionSetDeadline(p)
    \/ NewSessionNoDeadline(p)
    \/ NewSessionOk(p)
    \/ NewSessionReject(p)
    \/ NewSessionTimeout(p)
    \/ NewSessionClosed(p)
    \/ NewSessionDefer(p)
    \/ OpenReturnSession(p)
    \/ OpenSessionFailed(p)
    \/ RemoveConnLock(p)
    \/ OpenReturnDialErr(p)
    \/ RemoveConnSession(p)
    \/ OpenClose(p)
    \/ OpenLoopAgain(p)
    \/ OpenReturnSessionErr(p)

Next == Tick \/ \E p \in Procs : Step(p)

Spec == Init /\ [][Next]_vars

\* Every step of a caller inside Open is taken eventually, except the ones
\* that are the server's to take (answering a session-open request); the
\* Dialer returns, time passes, an expired deadline or a closed connection
\* fails the pending request.
Progress(p) ==
    \/ GetConnLock(p)
    \/ GetConnHit(p)
    \/ GetConnMiss(p)
    \/ DialNetFail(p)
    \/ DialNetOk(p)
    \/ HandshakeOk(p)
    \/ HandshakeFail(p)
    \/ HandshakeFailReturn(p)
    \/ GetConnCloseOk(p)
    \/ GetConnWait(p)
    \/ OpenCheck(p)
    \/ NewSessionSetDeadline(p)
    \/ NewSessionNoDeadline(p)
    \/ NewSessionTimeout(p)
    \/ NewSessionClosed(p)
    \/ NewSessionDefer(p)
    \/ OpenReturnSession(p)
    \/ OpenSessionFailed(p)
    \/ RemoveConnLock(p)
    \/ OpenReturnDialErr(p)
    \/ RemoveConnSession(p)
    \/ OpenClose(p)
    \/ OpenLoopAgain(p)
    \/ OpenReturnSessionErr(p)

FairSpec == Spec /\ WF_vars(Tick) /\ \A p \in Procs : WF_vars(Progress(p))

\* ------------------------------------------------------------ keys
\* AddrUserKey applied to two argument triples, on a pool that is not used
KeyInit ==
    /\ PoolInit
    /\ Timeout = 0
    /\ kin \in Triples \X Triples
    /\ kout = NoKeyOut

KeyApply ==
    /\ kout = NoKeyOut
    /\ kout' = <<AddrUserKey(kin[1].net, kin[1].addr, kin[1].user),
                 AddrUserKey(kin[2].net, kin[2].addr, kin[2].user)>>
    /\ UNCHANGED <<kin, Timeout, now, shared, pc, locals, res, hist, sessions,
                   opens, call>>

KeyNext == KeyApply

KeySpec == KeyInit /\ [][KeyNext]_vars

\* ------------------------------------------------------------ claims
\* callers that are inside a Dialer invocation for key
Dialing(key) == {p \in Procs : pc[p] \in {"dial", "handshake", "hs_fail"}
                                 /\ k[p] = key}

\* C1: single-flight dial: in every reachable state at most one Dialer
\* invocation made through getConn is in progress for each key.
C1_SingleFlight == \A key \in Keys : Cardinality(Dialing(key)) <= 1

\* C1 witness: after a session-open failure and an eviction, one caller is
\* redialing the key while another caller of the same key waits on the
\* new entry's ready signal.
C1_Witness ==
    \E p, q \in Procs :
        /\ p # q
        /\ pc[p] = "dial" /\ c[p] = 2 /\ conns[1].key = k[p]
        /\ hist[k[p]].sessFails >= 1
        /\ pc[q] = "gc_wait" /\ c[q] = 2

\* entries of key on which some Open call has returned a session
SessionEntries(key) == {e \in sessions : conns[e].key = key}

\* C2: connection reuse: as long as no dial and no session-open of a key
\* has failed, the Dialer has been invoked at most once for the key, every
\* call that returned did so with a session, and every such session runs
\* on the one entry the table holds for the key (dialed exactly once).
C2_ConnectionReuse ==
    \A key \in Keys :
        (hist[key].dialFails = 0 /\ hist[key].sessFails = 0) =>
            /\ hist[key].dials <= 1
            /\ \A p \in Procs :
                 (res[p].kind # "none" /\ res[p].key = key) =>
                     res[p].kind = "session"
            /\ \A e \in SessionEntries(key) :
                 hist[key].dials = 1 /\ tab[key] = e

\* C2 witness: three Open calls on one key, made by two callers, have all
\* returned a session and the Dialer was invoked once.
C2_Witness ==
    /\ opens = 3
    /\ \A p \in Procs :
          pc[p] = "idle" /\ res[p].kind = "session" /\ res[p].key = "k1"
    /\ hist["k1"].dials = 1
    /\ hist["k2"].dials = 0

\* getConn has handed caller p an entry that carries a dial error
HandedDialErr(p) ==
    \/ pc[p] = "check" /\ conns[c[p]].ok /\ conns[c[p]].err # "nil"
    \/ pc[p] \in {"rme_lock", "rme_cs"}

\* an Open call that returned a dial error returned the error of the entry
\* it was handed, and the table does not map the key to that entry
C3_ReturnsThatError ==
    \A p \in Procs :
        res[p].kind = "dialerr" =>
            /\ res[p].err # "nil"
            /\ res[p].err = conns[res[p].ent].err
            /\ tab[res[p].key] # res[p].ent

\* a step of a caller that was handed a failed entry only moves it towards
\* returning that entry's error; the call dials no more
C3_NoRedial ==
    \A p \in Procs :
        HandedDialErr(p) =>
            \/ /\ pc'[p] \in {"check", "rme_lock", "rme_cs"}
               /\ c'[p] = c[p]
               /\ call'[p].dials = call[p].dials
            \/ /\ pc'[p] = "idle"
               /\ res'[p].kind = "dialerr"
               /\ res'[p].ent = c[p]
               /\ res'[p].err = conns[c[p]].err
               /\ res'[p].dials = call[p].dials

\* a call is never handed an entry whose dial error an Open call had
\* returned before the call began
C3_NotHandedAgain ==
    \A p \in Procs : c[p] # NoConn => c[p] \notin call[p].errReturnedAtStart

\* a call that began after an Open call returned a dial error for its key
\* has invoked the Dialer itself by the time getConn hands it an entry
C3_DialsAfresh ==
    \A p \in Procs :
        (/\ pc[p] = "check"
         /\ \E e \in call[p].errReturnedAtStart : conns[e].key = k[p])
            => call[p].dials >= 1

\* C3 as stated: a dial error is terminal for the call, the failed entry is
\* out of the table when Open returns, and every Open call for the key
\* that starts after the return invokes the Dialer afresh.
C3_Original ==
    [][C3_ReturnsThatError' /\ C3_NoRedial /\ C3_DialsAfresh']_vars

\* C3 amended: a dial error is terminal for the call, the failed entry is
\* out of the table when Open returns, and no Open call for the key that
\* starts after the return is ever handed that failed entry: it dials
\* afresh, or is served by an entry another caller installed later.
C3_DialErrorTerminal ==
    [][C3_ReturnsThatError' /\ C3_NoRedial /\ C3_NotHandedAgain']_vars

\* C3 witness: a call returned a dial error on an entry; a call of the same
\* key that began after that return has been handed another entry.
C3_Witness ==
    \E p, q \in Procs :
        /\ res[p].kind = "dialerr"
        /\ pc[q] = "check"
        /\ k[q] = res[p].key
        /\ res[p].ent \in call[q].errReturnedAtStart
        /\ c[q] # res[p].ent

\* C4: self-healing retry: a call that found a pooled entry, saw its one
\* session-open attempt on it fail (the only failure on the key so far),
\* redialed and returned a session, returned the session of the new entry;
\* the first entry is out of the table and its connection closed (once),
\* the table maps the key to the new entry, and the Dialer was invoked
\* exactly twice for the key.
C4_SelfHealingRetry ==
    \A p \in Procs :
        (/\ res[p].kind = "session"
         /\ res[p].firstPooled
         /\ res[p].fails = 1
         /\ res[p].dials = 1
         /\ hist[res[p].key].sessFails = 1
         /\ hist[res[p].key].dialFails = 0)
            => /\ res[p].ent # res[p].first
               /\ tab[res[p].key] = res[p].ent
               /\ res[p].first \notin InTable
               /\ closes[res[p].first] = 1
               /\ closes[res[p].ent] = 0
               /\ hist[res[p].key].dials = 2

\* C4 witness: a single caller (no other caller ever called Open) whose
\* Open found the pooled entry, failed once on it, redialed and returned.
C4_Witness ==
    \E p \in Procs :
        /\ pc[p] = "idle"
        /\ res[p].kind = "session"
        /\ res[p].firstPooled
        /\ res[p].fails = 1
        /\ res[p].dials = 1
        /\ hist[res[p].key].sessFails = 1
        /\ \A q \in Procs \ {p} : pc[q] = "idle" /\ res[q].kind = "none"

\* C5: with Timeout > 0 every Open call eventually returns (stated up to
\* the model's bound on entries: a call that cannot allocate is excused).
C5_NoHang ==
    \A p \in Procs :
        (Timeout > 0 /\ pc[p] # "idle")
            ~> (pc[p] = "idle" \/ nconn = MaxEntries)

\* C6: while a caller's newSession with a deadline is in progress on an
\* entry, the deadline set on the entry's transport is non-zero and no
\* later than the caller's per-attempt deadline.
C6_AttemptBounded ==
    \A p \in Procs :
        (pc[p] = "ns_wait" /\ sessionDeadline[p] # ZeroTime) =>
            /\ netDeadline[c[p]] # ZeroTime
            /\ netDeadline[c[p]] <= sessionDeadline[p]

\* C7: the pool calls Close at most once on the connection of an entry.
C7_CloseOnce == \A e \in Allocated : closes[e] <= 1

\* C8: once an Open call has returned a session opened on entry e, no later
\* step closes e's connection or sets or clears the deadline of e's
\* transport.
C8_SessionsUntouched ==
    [][\A e \in sessions :
          closes'[e] = closes[e] /\ netDeadline'[e] = netDeadline[e]]_vars

\* callers that have read the dial error of the entry they hold (line 53)
ReadErr == {p \in Procs : c[p] # NoConn /\ rd[p].err # "unread"}
\* callers that have read the client handle of the entry they hold (line 82)
ReadClient == {p \in Procs : pc[p] \in {"ns_wait", "ns_defer", "ns_ret",
                                         "rms_lock", "rms_cs", "close",
                                         "after_close"}}

\* C9: all callers that getConn returned one entry to read the same dial
\* error and the same client handle from it (the ones the dial stored), and
\* all Open calls that return the dial error of one entry return the same
\* error.
C9_SameOutcome ==
    /\ \A p \in ReadErr : rd[p].err = conns[c[p]].err
    /\ \A p, q \in ReadErr : c[p] = c[q] => rd[p].err = rd[q].err
    /\ \A p \in ReadClient : rd[p].c = conns[c[p]].c /\ rd[p].c = c[p]
    /\ \A p, q \in ReadClient : c[p] = c[q] => rd[p].c = rd[q].c
    /\ \A p, q \in Procs :
          (/\ res[p].kind = "dialerr" /\ res[q].kind = "dialerr"
           /\ res[p].ent = res[q].ent) => res[p].err = res[q].err

\* C9 witness: the dialing caller and a waiter were handed the same failed
\* entry and both returned its dial error from Open.
C9_Witness ==
    \E p, q \in Procs :
        /\ p # q
        /\ res[p].kind = "dialerr" /\ res[q].kind = "dialerr"
        /\ res[p].ent = res[q].ent
        /\ res[p].dials = 1 /\ res[q].dials = 0

\* C10: an Open call never returns the error of a dial that had completed
\* (ready signal fired) with a failure before the call began.
C10_NoStaleDialError ==
    [][\A p \in Procs :
          (pc[p] = "rme_cs" /\ pc'[p] = "idle") =>
              c[p] \notin call[p].failedAtStart]_vars

\* callers inside a Dialer invocation (line 101, Pool.dial)
InDial == {p \in Procs : pc[p] \in {"dial", "handshake", "hs_fail"}}

\* C11: keys are independent: the table maps a key only to an entry made
\* for that key, a caller holds or waits on an entry of its own key only, a
\* caller inside the Dialer does not hold the mutex, and while no dial and
\* no session-open has failed every returned session runs on an entry of
\* the call's key whose key has seen exactly one Dialer invocation.
C11_IndependentKeys ==
    /\ \A key \in Keys : tab[key] # NoConn => conns[tab[key]].key = key
    /\ \A p \in Procs : c[p] # NoConn => conns[c[p]].key = k[p]
    /\ \A p \in InDial : mu # p
    /\ (\A key \in Keys : hist[key].dialFails = 0 /\ hist[key].sessFails = 0) =>
          \A p \in Procs :
              res[p].kind = "session" =>
                  /\ hist[res[p].key].dials = 1
                  /\ conns[res[p].ent].key = res[p].key

\* C11 witness: an Open call on one key has returned its session (on the
\* entry created second) while the dial for the other key, started
\* earlier, has not yet returned; one Dialer invocation per key.
C11_Witness ==
    \E p, q \in Procs :
        /\ pc[p] = "idle" /\ res[p].kind = "session" /\ res[p].ent = 2
        /\ q \in InDial /\ c[q] = 1 /\ k[q] # res[p].key
        /\ hist[k[q]].dials = 1 /\ hist[res[p].key].dials = 1

\* C12: deadline budgeting: when a session-open attempt starts (line 79),
\* with Timeout = 0 it has no deadline; with Timeout > 0 the first attempt
\* of the call has the deadline "now plus half of what remains until the
\* overall deadline" (twice the deadline is now + overall deadline), which
\* is not in the past while the overall deadline has not passed, and every
\* later attempt of the call has the overall deadline.
C12_DeadlineBudget ==
    [][\A p \in Procs :
          (pc[p] = "ns" /\ pc'[p] = "ns_wait") =>
              IF Timeout = 0
              THEN sessionDeadline[p] = ZeroTime
              ELSE IF call[p].fails = 0
              THEN /\ 2 * sessionDeadline[p] = now + deadline[p]
                   /\ now <= deadline[p] => sessionDeadline[p] >= now
              ELSE sessionDeadline[p] = deadline[p]]_vars

\* C13: AddrUserKey is injective: the strings it returns for two argument
\* triples are equal if and only if the triples agree in net, addr and user.
C13_KeyInjective ==
    kout # NoKeyOut => ((kout[1] = kout[2]) <=> (kin[1] = kin[2]))

\* C13 witness: AddrUserKey was applied to two different triples whose
\* components hold quotes and a space exactly where the separators of the
\* other triple's key are, and returned different strings.
C13_Witness ==
    /\ kout # NoKeyOut
    /\ kin[1] = [net |-> <<"\"", " ", "\"">>, addr |-> <<>>, user |-> <<>>]
    /\ kin[2] = [net |-> <<>>, addr |-> <<"\"", " ", "\"">>, user |-> <<>>]
    /\ kout[1] # kout[2]

\* callers between p.mu.Lock() and p.mu.Unlock() (lines 88-100, 108-113)
InCritical == {p \in Procs : pc[p] \in {"gc_cs", "rme_cs", "rms_cs"}}
\* callers inside a call that can block: the Dialer, the wait for the ready
\* signal, a session-open attempt, Close of a connection
InBlockingCall == {p \in Procs : pc[p] \in {"dial", "handshake", "hs_fail",
                                             "gc_wait", "ns_wait", "close"}}

\* C14: a caller inside the Dialer, blocked on a ready signal, inside a
\* session-open attempt or closing a connection does not hold the mutex;
\* the mutex is held exactly by a caller between Lock and Unlock around a
\* table lookup, insert or compare-and-delete, and the step that ends that
\* section releases it.
C14_NoBlockingUnderLock ==
    [][/\ \A p \in InBlockingCall' : mu' # p
       /\ \A p \in Procs : (mu' = p) <=> (p \in InCritical')
       /\ \A p \in InCritical : pc'[p] # pc[p] => mu' = 0]_vars

\* C14 witness: one caller is inside the Dialer and another is blocked on
\* the ready signal of an entry while neither holds the mutex, the second
\* having passed through the critical section after the first.
C14_Witness ==
    \E p, q \in Procs :
        /\ pc[p] = "dial" /\ pc[q] = "gc_wait" /\ c[q] = c[p]
        /\ mu = 0

\* callers about to run the lookup and delete of removeConn (lines 110-113)
InRemoveConn == {p \in Procs : pc[p] \in {"rme_cs", "rms_cs"}}

\* C15: removeConn(k, e) deletes the mapping of k exactly when the table
\* maps k to e and otherwise leaves the table as it is; the mapping of a key
\* changes from an entry only by the removeConn of a caller holding that
\* very entry; and a caller closes only the entry it holds itself, which
\* the table does not hold, so a newer entry of the key is neither removed
\* nor closed by the holder of a stale one.
C15_CompareAndDelete ==
    [][/\ \A p \in InRemoveConn :
            pc'[p] # pc[p] =>
                tab' = IF tab[k[p]] = c[p]
                       THEN [tab EXCEPT ![k[p]] = NoConn]
                       ELSE tab
       /\ \A key \in Keys :
            (tab[key] # NoConn /\ tab'[key] # tab[key]) =>
                /\ tab'[key] = NoConn
                /\ \E p \in InRemoveConn :
                      k[p] = key /\ c[p] = tab[key] /\ pc'[p] # pc[p]
       /\ \A e \in Entries :
            closes'[e] # closes[e] =>
                /\ e \notin InTable
                /\ \E p \in Procs : pc[p] = "close" /\ c[p] = e]_vars

\* C15 witness: a caller holding stale entry 1 has run removeConn while the
\* table mapped its key to the newer entry 2; the table still maps the key
\* to entry 2 and entry 2 has not been closed.
C15_Witness ==
    \E p \in Procs :
        /\ pc[p] = "close" /\ c[p] = 1 /\ call[p].newer = 2
        /\ tab[k[p]] = 2 /\ closes[2] = 0

\* the caller that created entry e and is between the creation (line 98)
\* and the return of getConn (line 103)
Creators(e) == {p \in Procs : pc[p] \in {"dial", "handshake", "hs_fail",
                                          "gc_close"}
                                /\ c[p] = e}
\* the fields of an entry that line 101 assigns
Fields(cn) == <<cn.netC, cn.c, cn.err>>

\* C16: the transport, client and dial-error fields of an entry are
\* assigned once, by the caller that created the entry (the one caller that
\* entered the Dialer with it) and before the ready signal has fired; the
\* ready signal fires once, after that assignment, by the same caller; and
\* a caller that has read the dial error or the client of an entry did so
\* after the entry's ready signal had fired.
C16_WriteOnce ==
    [][/\ \A p \in Procs :
            (pc'[p] = "dial" /\ pc[p] # "dial") =>
                /\ c'[p] = nconn' /\ nconn' = nconn + 1
                /\ \A e \in Entries : e = nconn + 1 => Creators(e)' = {p}
       /\ \A e \in Entries :
            /\ Cardinality(Creators(e)') <= 1
            /\ conns'[e].writes <= 1 /\ conns'[e].fires <= 1
            /\ conns'[e].ok <=> conns'[e].fires = 1
            /\ conns'[e].ok => conns'[e].writes = 1
            /\ Fields(conns'[e]) # Fields(conns[e]) =>
                  conns'[e].writes = conns[e].writes + 1
            /\ conns'[e].writes # conns[e].writes =>
                  /\ conns[e].writes = 0 /\ ~conns[e].ok
                  /\ \E p \in Creators(e) : Creators(e)' = {p}
            /\ conns'[e].fires # conns[e].fires =>
                  /\ conns[e].fires = 0 /\ conns[e].writes = 1
                  /\ Fields(conns'[e]) = Fields(conns[e])
                  /\ \E p \in Creators(e) : pc[p] = "gc_close"
       /\ \A p \in ReadErr' \cup ReadClient' : conns'[c'[p]].ok]_vars

\* C16 witness: the creator of entry 1 and a caller that waited for its
\* ready signal have both read the entry, which was written once and whose
\* signal has fired once.
C16_Witness ==
    \E p, q \in Procs :
        /\ c[p] = 1 /\ c[q] = 1
        /\ call[p].dials = 1 /\ call[q].dials = 0
        /\ p \in ReadErr /\ q \in ReadClient
        /\ conns[1].writes = 1 /\ conns[1].fires = 1

\* C17: Open returns the error of a session-open attempt only when
\* Timeout > 0 and the clock is past the overall deadline, and then it is the
\* error of the call's latest attempt (the error variable is assigned only
\* by an attempt returning); a failed attempt always goes on to evict and
\* close its entry, and when the clock read after the close is not past the
\* deadline (or Timeout = 0) the loop is entered again; with Timeout = 0
\* Open returns a session or a dial error only.
C17_SessionErrorPastDeadline ==
    [][\A p \in Procs :
          /\ (pc[p] # "idle" /\ pc'[p] = "idle" /\ res'[p].kind = "sesserr") =>
                /\ Timeout > 0 /\ now > deadline[p]
                /\ pc[p] = "after_close"
                /\ err[p] # "nil" /\ res'[p].err = err[p]
                /\ res'[p].fails >= 1
          /\ (err'[p] # err[p] /\ err'[p] # "nil") => pc[p] = "ns_wait"
          /\ (pc[p] = "ns_ret" /\ err[p] # "nil" /\ pc'[p] # pc[p]) =>
                pc'[p] = "rms_lock"
          /\ (pc[p] = "close" /\ pc'[p] # pc[p]) =>
                /\ tab[k[p]] # c[p]
                /\ closes'[c[p]] = closes[c[p]] + 1
                /\ pc'[p] = "after_close"
          /\ (pc[p] = "after_close" /\ pc'[p] # pc[p]) =>
                /\ tab[k[p]] # c[p]
                /\ closes[c[p]] >= 1
                /\ IF Timeout > 0 /\ now > deadline[p]
                   THEN pc'[p] = "idle" /\ res'[p].kind = "sesserr"
                   ELSE pc'[p] = "gc_lock"
          /\ Timeout = 0 => res'[p].kind \in {"none", "session", "dialerr"}]_vars

\* C17 witness: an Open call with a timeout has returned the timeout error
\* of its second session-open attempt, made after one eviction and redial.
C17_Witness ==
    \E p \in Procs :
        /\ pc[p] = "idle" /\ res[p].kind = "sesserr"
        /\ res[p].fails = 2 /\ res[p].dials >= 1 /\ res[p].err = "timeout"
        /\ Timeout > 0

\* callers blocked in, or about to pass, the receive on c.ok (line 95)
Waiters == {p \in Procs : pc[p] = "gc_wait"}

\* C18: a caller waiting on the ready signal of the entry it found returns
\* from getConn once the signal has fired, whether it arrived before or
\* after the firing; it returns with the entry it found, only after the
\* signal has fired, and without invoking the Dialer.
C18_NoLostWaiter ==
    /\ \A p \in Procs :
          (pc[p] = "gc_wait" /\ conns[c[p]].ok) ~> (pc[p] = "check")
    /\ [][\A p \in Waiters :
             /\ c'[p] = c[p]
             /\ call'[p].dials = call[p].dials
             /\ pc'[p] \in {"gc_wait", "check"}
             /\ pc'[p] = "check" => conns[c[p]].ok]_vars

\* C18 witness: a caller that found entry 1 before its ready signal had
\* fired has returned from getConn with entry 1 after the firing, without
\* a Dialer invocation of its own.
C18_Witness ==
    \E p \in Procs :
        /\ pc[p] = "check" /\ c[p] = 1
        /\ call[p].early /\ call[p].dials = 0
        /\ conns[1].fires = 1

\* entries that were in the table and have been removed from it
Evicted == Allocated \ InTable

\* C19: an entry that has been removed from the table is not in the table
\* after any later step, under any key; the connection of an entry is
\* closed only when the entry is no longer in the table; so no entry in the
\* table has a connection that the pool has closed.
C19_EvictedStayOut ==
    [][/\ \A e \in Evicted : e \in Evicted'
       /\ \A e \in Entries : closes'[e] > closes[e] => e \in Evicted
       /\ \A e \in InTable' : closes'[e] = 0]_vars

\* C19 witness: entry 1 was evicted and its connection closed, and the table
\* maps the key of entry 1 to the later entry 2, whose connection is open.
C19_Witness ==
    /\ 1 \in Evicted /\ closes[1] >= 1
    /\ tab[conns[1].key] = 2 /\ closes[2] = 0
    /\ conns[2].ok /\ conns[2].c = 2

\* entries whose dial produced a connection (line 131: netC, sshC, nil)
Connected == {e \in Allocated : conns[e].c # NoConn}
\* callers that have evicted their entry and are about to close it (line 63)
Closing(e) == {p \in Procs : pc[p] = "close" /\ c[p] = e}

\* C20: a connection the Dialer produced is owned by an entry in the table,
\* or has been closed by the pool, or is held by a caller that has just
\* evicted it and closes it as its next step, before it dials again or
\* returns, so that an evicted connection is eventually closed; and a dial
\* whose handshake failed has closed its network connection once when it
\* returns, while a network connection is closed by no other dial: only
\* by one that goes on to return the handshake error.
C20_NoLeak ==
    /\ \A e \in Entries :
          (e \in Connected /\ e \in Evicted) ~> (closes[e] >= 1)
    /\ [][/\ \A e \in Connected' :
               \/ e \in InTable'
               \/ closes'[e] >= 1
               \/ Closing(e)' # {}
          /\ \A e \in Entries : \A p \in Closing(e) :
               pc'[p] # pc[p] => closes'[e] = closes[e] + 1
          /\ \A e \in Allocated' :
               /\ conns'[e].err = "hserr" =>
                     netCloses'[e] = 1 /\ e \notin Connected'
               /\ netCloses'[e] # 0 =>
                     /\ netCloses'[e] = 1
                     /\ \/ conns'[e].err = "hserr"
                        \/ \E p \in Procs : pc'[p] = "hs_fail" /\ c'[p] = e
          /\ \A p \in Procs :
               (pc[p] = "hs_fail" /\ pc'[p] # pc[p]) =>
                   conns'[c[p]].err = "hserr" /\ pc'[p] = "gc_close"]_vars

\* C20 witness: the connection of entry 1 was evicted after a session-open
\* failure and closed, and the dial of entry 2 failed in the handshake and
\* closed its network connection.
C20_Witness ==
    /\ 1 \in Connected /\ 1 \in Evicted /\ closes[1] >= 1
    /\ conns[2].err = "hserr" /\ netCloses[2] = 1 /\ conns[2].ok

====
